---- MODULE Spec2Model ----
(***************************************************************************)
(* Model of the `day` leaderboard command of aocbot:                       *)
(*   src/src/matrix/commands/aoc/day.rs, fn invoke.                        *)
(*                                                                         *)
(* One invocation is modelled from the parsed command to its end.  Rust    *)
(* Option values are sequences of length at most one: <<>> is None and     *)
(* <<x>> is Some(x).  The collaborators (leaderboard fetch, room replies)  *)
(* answer nondeterministically with every result shape the code tells      *)
(* apart.                                                                  *)
(***************************************************************************)
EXTENDS Integers, Sequences, FiniteSets, TLC

VARIABLES
    cmd,          \* the parsed command: argument name -> Option<token>
    current,      \* AocDay::current(): Option<day>
    pc,           \* position of the invocation
    params,       \* Option<[day, year, parts, rows, offset]>, set by Resolve
    members,      \* the member vector (line 104), sorted from line 105 on
    ranked,       \* the (rank, member) pairs produced by the map closure
    pending,      \* what the iterator chain still has to yield to the loop
    leaderboard,  \* the document buffer: [header, rows, footer]
    replies,      \* every room reply attempted, in order: [msg, ok]
    fetch_calls,  \* the calls of get_daily_private_leaderboard: [year, day, parts]
    fetched,      \* the fetch answer: [shape, status] ("none" before the call)
    delivery,     \* how the reply carrying the document ended ("none" before)
    result        \* "running" | "Ok" | "Err" | "Panic"

vars == <<cmd, current, pc, params, members, ranked, pending, leaderboard,
          replies, fetch_calls, fetched, delivery, result>>

----------------------------------------------------------------------------
(* Bounds of the model *)

\* largest roster of the ranking scenarios
MaxMembers == 4
\* width of the unsigned score type in the model (u32 in the source)
ScoreBits == 3
\* AocDay::most_recent().year as the clock gives it
MostRecentYear == 2016
\* the day AocDay::current() reports while an event is running
CurrentDay == 12
\* context.config.aoc.leaderboard_rows
ConfigRows == 2

(* Program constants *)
MinDay == 1
MaxDay == 25
MinYear == 2015
MaxRows == 200
TopRanks == 3

U32_MAX == 2 ^ ScoreBits - 1

None == <<>>
Some(x) == <<x>>

Min(a, b) == IF a < b THEN a ELSE b

----------------------------------------------------------------------------
(* Argument tokens and their parsing *)

Numerals ==
    ("0" :> 0) @@ ("1" :> 1) @@ ("2" :> 2) @@ ("3" :> 3) @@ ("25" :> 25)
    @@ ("26" :> 26) @@ ("200" :> 200) @@ ("201" :> 201)
    @@ ("2014" :> 2014) @@ ("2015" :> 2015) @@ ("2016" :> 2016)
    @@ ("2017" :> 2017) @@ ("2018" :> 2018)

\* str::parse::<integer>().ok()
ParseInt(s) == IF s \in DOMAIN Numerals THEN Some(Numerals[s]) ELSE None

\* .map(|t| t.parse().ok().filter(|v| (lo..=hi).contains(v)))
ParseInRange(arg, lo, hi) ==
    IF arg = None THEN None
    ELSE LET p == ParseInt(arg[1])
         IN  IF p # None /\ p[1] >= lo /\ p[1] <= hi THEN Some(p) ELSE Some(None)

\* cmd.get_from_kwargs_or_args(name)
GetArg(c, name) == c[name]

----------------------------------------------------------------------------
(* Parameter resolution, lines 28-72 *)

\* DayOpt with the fallback also taken for a supplied but invalid day
DayOpt_mut(c, cur) ==
    LET given == ParseInRange(GetArg(c, "day"), MinDay, MaxDay)
    IN  IF given # None /\ given # Some(None) THEN given
        ELSE IF cur = None THEN given ELSE Some(Some(cur[1]))

\* lines 28-31: the day argument, or else the currently active event day
DayOpt(c, cur) ==
    LET given == ParseInRange(GetArg(c, "day"), MinDay, MaxDay)
    IN  IF given # None THEN given
        ELSE IF cur = None THEN None ELSE Some(Some(cur[1]))

\* lines 38-43
YearOpt(c) == ParseInRange(GetArg(c, "year"), MinYear, MostRecentYear)

\* lines 49-54: Some(parts), or None for an unknown token
PartsOpt(c) ==
    LET a == GetArg(c, "p")
    IN  IF a = None THEN Some("Both")
        ELSE IF a[1] = "1" THEN Some("P1")
        ELSE IF a[1] = "2" THEN Some("P2")
        ELSE IF a[1] = "both" THEN Some("Both")
        ELSE None

\* RowsOpt with the upper limit off by one
RowsOpt_mut(c) == ParseInRange(GetArg(c, "rows"), 0, MaxRows + 1)

\* lines 56-59
RowsOpt(c) == ParseInRange(GetArg(c, "rows"), 0, MaxRows)

\* lines 65-68
OffsetOpt(c) == ParseInRange(GetArg(c, "offset"), 0, MaxRows)

\* The early returns of lines 34, 35, 45, 53, 61, 70, in the order of the code:
\* Some(text of the first one taken), or None when all five matches succeed.
ValidationError(c, cur) ==
    IF DayOpt(c, cur) = Some(None) THEN Some("Failed to parse argument 'day'")
    ELSE IF DayOpt(c, cur) = None THEN Some("Argument 'day' is required")
    ELSE IF YearOpt(c) = Some(None) THEN Some("Failed to parse argument 'year'")
    ELSE IF PartsOpt(c) = None THEN Some("Failed to parse argument 'p'")
    ELSE IF RowsOpt(c) = Some(None) THEN Some("Failed to parse argument 'rows'")
    ELSE IF OffsetOpt(c) = Some(None) THEN Some("Failed to parse argument 'offset'")
    ELSE None

\* The values bound by the five matches when none returns early.
Resolved(c, cur) ==
    [day    |-> DayOpt(c, cur)[1][1],
     year   |-> IF YearOpt(c) = None THEN MostRecentYear ELSE YearOpt(c)[1][1],
     parts  |-> PartsOpt(c)[1],
     rows   |-> IF RowsOpt(c) = None THEN ConfigRows ELSE RowsOpt(c)[1][1],
     offset |-> IF OffsetOpt(c) = None THEN 0 ELSE OffsetOpt(c)[1][1]]

----------------------------------------------------------------------------
(* Messages and the document *)

NoDoc == [header |-> None, rows |-> <<>>, footer |-> FALSE]

\* error_message(text); year and status are the values interpolated in the text
ErrorMessage(text, year, status) ==
    [kind |-> "error", text |-> text, year |-> year, status |-> status, body |-> NoDoc]

\* html_message(leaderboard)
HtmlMessage(doc) ==
    [kind |-> "html", text |-> "", year |-> 0, status |-> 0, body |-> doc]

FetchFailedText == "Failed to fetch private leaderboard for {year} ({status})"
TooLargeText ==
    "The requested leaderboard slice would be too large to fit in a matrix message. Try to reduce the number of rows."

\* One call of room.reply_to: the attempt is recorded with its outcome.
Reply(msg, ok) == [msg |-> msg, ok |-> ok]

\* ReplyResult with the failure of the reply dropped
ReplyResult_mut(ok) == "Ok"

\* `room.reply_to(..).await?; return Ok(())` (lines 83-90 and 225-233): the
\* result of invoke after a reply that was sent (ok) or failed
ReplyResult(ok) == IF ok THEN "Ok" ELSE "Err"

\* where the invocation ends with that result
EndState(res) == IF res = "Ok" THEN "UserError" ELSE "Fault"

\* send_error(&room, event, text): one reply, whose result is the result
SendError(text, ok) ==
    /\ replies' = Append(replies, Reply(ErrorMessage(text, 0, 0), ok))
    /\ pc' = IF ok THEN "UserError" ELSE "Fault"
    /\ result' = IF ok THEN "Ok" ELSE "Err"

\* HasStatus with every reqwest::Error taken as carrying a status
HasStatus_mut(shape) == shape \in {"Status", "NoStatus"}

\* lines 80-82: the fetch error is a reqwest::Error that carries a status
HasStatus(shape) == shape = "Status"

\* IsTooLarge with every delivery failure taken as too large
IsTooLarge_mut(outcome) == outcome # "Ok"

\* lines 220-223: the delivery error is a client API error of kind TooLarge
IsTooLarge(outcome) == outcome = "TooLarge"

----------------------------------------------------------------------------
(* Leaderboard data *)

AllDays == {MinDay, MaxDay, CurrentDay}

\* completion_day_level of member id with records for the days ds
Completion(id, ds) == [d \in ds |-> [fst |-> [get_star_ts |-> 100 * id + d]]]

\* AocDay { year, day }.unlock_datetime()
Unlock(year, day) == 100 * year + day

ScoreSamples == {0, 1, U32_MAX}

\* member vectors of length n over the given scores, star counts and day sets
Rosters(n, scores, stars, daysets) ==
    { [i \in 1..n |-> [id |-> i, local_score |-> f[i][1], stars |-> f[i][2],
                       completion_day_level |-> Completion(i, f[i][3])]] :
      f \in [1..n -> scores \X stars \X daysets] }

RosterUpTo(n, scores, stars, daysets) ==
    UNION { Rosters(k, scores, stars, daysets) : k \in 0..n }

\* a command that leaves everything but rows and offset to the defaults
IsRankCmd(c) ==
    /\ c.day = None /\ c.year = None /\ c.p = None
    /\ c.rows \in {None, Some("1")}
    /\ c.offset \in {None, Some("1"), Some("2"), Some("3")}

\* a command that names a day and leaves year, rows and offset to the defaults
IsScopeCmd(c) ==
    /\ c.day \in {Some("1"), Some("25")} /\ c.year = None
    /\ c.rows = None /\ c.offset = None

\* The leaderboards the fetch may answer with.
RostersFor(c) ==
    IF IsRankCmd(c) THEN RosterUpTo(MaxMembers, ScoreSamples, {0, 1}, {AllDays})
    ELSE IF IsScopeCmd(c)
         THEN RosterUpTo(2, {1, U32_MAX}, {0, 2}, SUBSET {MinDay, MaxDay})
    ELSE RosterUpTo(1, {1}, {1}, {AllDays})

\* The answers of get_daily_private_leaderboard the code tells apart.
FetchAnswers(c) ==
    { [shape |-> "Ok", status |-> 0, members |-> r] : r \in RostersFor(c) }
    \cup { [shape |-> "Status", status |-> s, members |-> <<>>] : s \in {404, 500} }
    \cup { [shape |-> sh, status |-> 0, members |-> <<>>] : sh \in {"NoStatus", "Other"} }

----------------------------------------------------------------------------
(* Ranking, lines 104-136 *)

\* Ord of PrivateLeaderboardMember: descending local score, then identity
MemberLess(a, b) ==
    \/ a.local_score > b.local_score
    \/ a.local_score = b.local_score /\ a.id < b.id

RECURSIVE Insert(_, _)
Insert(m, s) ==
    IF s = <<>> THEN <<m>>
    ELSE IF MemberLess(m, Head(s)) THEN <<m>> \o s
    ELSE <<Head(s)>> \o Insert(m, Tail(s))

\* members.sort_unstable()
RECURSIVE Sort(_)
Sort(s) == IF s = <<>> THEN <<>> ELSE Insert(Head(s), Sort(Tail(s)))

\* lines 122-133: enumerate().map(closure) with the captured last_score and
\* rank; i is the 0-based index of enumerate
RECURSIVE RankFrom(_, _, _, _)
RankFrom(ms, i, last_score, rank) ==
    IF i >= Len(ms) THEN <<>>
    ELSE LET member  == ms[i + 1]
             changed == member.local_score # last_score
             ls      == IF changed THEN member.local_score ELSE last_score
             rk      == IF changed THEN i + 1 ELSE rank
         IN  <<[rank |-> rk, member |-> member]>> \o RankFrom(ms, i + 1, ls, rk)

RankWalk(ms) == RankFrom(ms, 0, U32_MAX, 0)

\* .filter(|(_, m)| m.stars > 0)
RECURSIVE FilterStars(_)
FilterStars(s) ==
    IF s = <<>> THEN <<>>
    ELSE IF Head(s).member.stars > 0 THEN <<Head(s)>> \o FilterStars(Tail(s))
    ELSE FilterStars(Tail(s))

\* .skip(n)
RECURSIVE Skip(_, _)
Skip(s, n) == IF n = 0 \/ s = <<>> THEN s ELSE Skip(Tail(s), n - 1)

\* .take(n)
RECURSIVE Take(_, _)
Take(s, n) == IF n = 0 \/ s = <<>> THEN <<>> ELSE <<Head(s)>> \o Take(Tail(s), n - 1)

\* Page with the offset applied before the filter
Page_mut(rk, offset, rows) == Take(FilterStars(Skip(rk, offset)), rows)

\* lines 124-136: what the for loop iterates over
Page(rk, offset, rows) == Take(Skip(FilterStars(rk), offset), rows)

\* lines 107-111
PartsTitle(parts) ==
    IF parts = "P1" THEN "/1" ELSE IF parts = "P2" THEN "/2" ELSE ""

----------------------------------------------------------------------------
(* Rendering of one row, lines 138-207 *)

\* Emphasis with the limit exclusive
Emphasis_mut(rank) == rank < TopRanks

\* lines 166-170
Emphasis(rank) == rank <= TopRanks

\* lines 183-186: completion_day_level.get(&day)
DayRecord(member, day) ==
    IF day \in DOMAIN member.completion_day_level
    THEN Some(member.completion_day_level[day]) ELSE None

\* Start with the unlock instant in place of a missing record
Start_mut(parts, member, year, day) ==
    IF parts \in {"P1", "Both"} THEN Some(Unlock(year, day))
    ELSE IF DayRecord(member, day) = None THEN Some(Unlock(year, day))
    ELSE Some(DayRecord(member, day)[1].fst.get_star_ts)

\* lines 180-190; None stands for the panic of unwrap() on a missing record
Start(parts, member, year, day) ==
    IF parts \in {"P1", "Both"} THEN Some(Unlock(year, day))
    ELSE IF DayRecord(member, day) = None THEN None
    ELSE Some(DayRecord(member, day)[1].fst.get_star_ts)

RenderedRow(row, start) ==
    [rank |-> row.rank, id |-> row.member.id,
     local_score |-> row.member.local_score, stars |-> row.member.stars,
     emphasized |-> Emphasis(row.rank), start |-> start]

----------------------------------------------------------------------------
(* The invocation *)

CmdTokens ==
    [day    : {None} \cup {Some(t) : t \in {"x", "0", "1", "25", "26"}},
     year   : {None} \cup {Some(t) : t \in {"x", "2014", "2015", "2016", "2017", "2018"}},
     p      : {None} \cup {Some(t) : t \in {"1", "2", "both", "x"}},
     rows   : {None} \cup {Some(t) : t \in {"x", "0", "1", "200", "201"}},
     offset : {None} \cup {Some(t) : t \in {"x", "0", "1", "2", "3", "200", "201"}}]

Init ==
    /\ cmd \in CmdTokens
    /\ current \in {None, Some(CurrentDay)}
    /\ pc = "Resolving"
    /\ params = None
    /\ members = <<>>
    /\ ranked = <<>>
    /\ pending = <<>>
    /\ leaderboard = NoDoc
    /\ replies = <<>>
    /\ fetch_calls = <<>>
    /\ fetched = [shape |-> "none", status |-> 0]
    /\ delivery = "none"
    /\ result = "running"

\* lines 28-72
Resolve ==
    /\ pc = "Resolving"
    /\ LET err == ValidationError(cmd, current)
       IN  IF err # None
           THEN /\ \E ok \in BOOLEAN : SendError(err[1], ok)
                /\ UNCHANGED params
           ELSE /\ params' = Some(Resolved(cmd, current))
                /\ pc' = "Fetching"
                /\ UNCHANGED <<replies, result>>
    /\ UNCHANGED <<cmd, current, members, ranked, pending, leaderboard,
                   fetch_calls, fetched, delivery>>

\* lines 74-97
Fetch ==
    /\ pc = "Fetching"
    /\ fetch_calls' = Append(fetch_calls,
           [year |-> params[1].year, day |-> params[1].day, parts |-> params[1].parts])
    /\ \E ans \in FetchAnswers(cmd) :
         /\ fetched' = [shape |-> ans.shape, status |-> ans.status]
         /\ members' = ans.members
         /\ IF ans.shape = "Ok"
            THEN /\ pc' = "Ranking"
                 /\ UNCHANGED <<replies, result>>
            ELSE IF HasStatus(ans.shape)
            THEN \E ok \in BOOLEAN :
                   /\ replies' = Append(replies,
                         Reply(ErrorMessage(FetchFailedText, params[1].year, ans.status), ok))
                   /\ result' = ReplyResult(ok)
                   /\ pc' = EndState(result')
            ELSE /\ pc' = "Fault"
                 /\ result' = "Err"
                 /\ UNCHANGED replies
    /\ UNCHANGED <<cmd, current, params, ranked, pending, leaderboard, delivery>>

\* lines 104-136: sort, header, and the iterator chain the loop consumes
Rank ==
    /\ pc = "Ranking"
    /\ members' = Sort(members)
    /\ ranked' = RankWalk(members')
    /\ pending' = Page(ranked', params[1].offset, params[1].rows)
    /\ leaderboard' = [leaderboard EXCEPT !.header =
           Some([year |-> params[1].year, day |-> params[1].day,
                 parts_title |-> PartsTitle(params[1].parts)])]
    /\ pc' = "Rendering"
    /\ UNCHANGED <<cmd, current, params, replies, fetch_calls, fetched, delivery,
                   result>>

\* lines 138-207: one iteration of the loop
RenderRow ==
    /\ pc = "Rendering"
    /\ pending # <<>>
    /\ LET row   == Head(pending)
           start == Start(params[1].parts, row.member, params[1].year, params[1].day)
       IN  IF start = None
           THEN /\ pc' = "Fault"
                /\ result' = "Panic"
                /\ UNCHANGED <<pending, leaderboard>>
           ELSE /\ leaderboard' = [leaderboard EXCEPT !.rows =
                                      Append(@, RenderedRow(row, start[1]))]
                /\ pending' = Tail(pending)
                /\ UNCHANGED <<pc, result>>
    /\ UNCHANGED <<cmd, current, params, members, ranked, replies, fetch_calls,
                   fetched, delivery>>

\* lines 210-217
RenderFooter ==
    /\ pc = "Rendering"
    /\ pending = <<>>
    /\ leaderboard' = [leaderboard EXCEPT !.footer = TRUE]
    /\ pc' = "Delivering"
    /\ UNCHANGED <<cmd, current, params, members, ranked, pending, replies,
                   fetch_calls, fetched, delivery, result>>

\* Deliver with a second attempt after a failure other than too large
Deliver_mut ==
    /\ pc = "Delivering"
    /\ \E outcome \in {"Ok", "Other"} :
         /\ delivery' = outcome
         /\ replies' = Append(replies, Reply(HtmlMessage(leaderboard), outcome = "Ok"))
         /\ IF outcome = "Ok"
            THEN pc' = "Done" /\ result' = "Ok"
            ELSE IF Len(replies) = 0
            THEN UNCHANGED <<pc, result>>
            ELSE pc' = "Fault" /\ result' = "Err"
    /\ UNCHANGED <<cmd, current, params, members, ranked, pending, leaderboard,
                   fetch_calls, fetched>>

\* lines 219-239
Deliver ==
    /\ pc = "Delivering"
    /\ \E outcome \in {"Ok", "TooLarge", "Other"} :
         LET first == Reply(HtmlMessage(leaderboard), outcome = "Ok")
         IN  /\ delivery' = outcome
             /\ IF outcome = "Ok"
                THEN /\ replies' = Append(replies, first)
                     /\ pc' = "Done"
                     /\ result' = "Ok"
                ELSE IF IsTooLarge(outcome)
                THEN \E ok \in BOOLEAN :
                       /\ replies' = replies \o
                             <<first, Reply(ErrorMessage(TooLargeText, 0, 0), ok)>>
                       /\ result' = ReplyResult(ok)
                       /\ pc' = EndState(result')
                ELSE /\ replies' = Append(replies, first)
                     /\ pc' = "Fault"
                     /\ result' = "Err"
    /\ UNCHANGED <<cmd, current, params, members, ranked, pending, leaderboard,
                   fetch_calls, fetched>>

Next ==
    \/ Resolve
    \/ Fetch
    \/ Rank
    \/ RenderRow
    \/ RenderFooter
    \/ Deliver

Spec == Init /\ [][Next]_vars

----------------------------------------------------------------------------
(* Vocabulary of the properties *)

Terminal == pc \in {"Done", "UserError", "Fault"}

\* the replies that reached the requester
Sent == SelectSeq(replies, LAMBDA r : r.ok)

DocAttempts == SelectSeq(replies, LAMBDA r : r.msg.kind = "html")

\* a token that is the decimal form of a number in lo..hi
NumberIn(tok, lo, hi) == \E n \in lo..hi : tok \in DOMAIN Numerals /\ Numerals[tok] = n

\* the argument is supplied and its value is not acceptable
Invalid(c, field) ==
    /\ c[field] # None
    /\ CASE field = "day"    -> ~NumberIn(c.day[1], 1, 25)
         [] field = "year"   -> ~NumberIn(c.year[1], 2015, MostRecentYear)
         [] field = "p"      -> c.p[1] \notin {"1", "2", "both"}
         [] field = "rows"   -> ~NumberIn(c.rows[1], 0, 200)
         [] field = "offset" -> ~NumberIn(c.offset[1], 0, 200)

FieldOrder == <<"day", "year", "p", "rows", "offset">>

AnyInvalid(c) == \E i \in 1..5 : Invalid(c, FieldOrder[i])

\* the first invalid field in the order day, year, p, rows, offset
FirstInvalid(c) ==
    FieldOrder[CHOOSE i \in 1..5 :
        /\ Invalid(c, FieldOrder[i])
        /\ \A j \in 1..(i - 1) : ~Invalid(c, FieldOrder[j])]

ParseErrorText(field) ==
    CASE field = "day"    -> "Failed to parse argument 'day'"
      [] field = "year"   -> "Failed to parse argument 'year'"
      [] field = "p"      -> "Failed to parse argument 'p'"
      [] field = "rows"   -> "Failed to parse argument 'rows'"
      [] field = "offset" -> "Failed to parse argument 'offset'"

DayRequiredText == "Argument 'day' is required"

\* 1-based position of the first member of ms holding the score
FirstPos(ms, score) ==
    CHOOSE i \in 1..Len(ms) :
        /\ ms[i].local_score = score
        /\ \A j \in 1..(i - 1) : ms[j].local_score # score

\* ms is sorted by descending local score
SortedDesc(ms) ==
    \A i \in 1..Len(ms) : \A j \in i..Len(ms) : ms[i].local_score >= ms[j].local_score

\* the sorted member vector exists from the Rank step on
Ranked == pc \notin {"Resolving", "Fetching", "Ranking"} /\ fetched.shape = "Ok"

\* the members with stars > 0 at the 1-based positions offset+1 .. offset+limit
\* of the sorted vector restricted to such members
ExpectedPage ==
    LET f == SelectSeq(members, LAMBDA m : m.stars > 0)
    IN  SubSeq(f, params[1].offset + 1, Min(params[1].offset + params[1].rows, Len(f)))

SameMember(row, m) ==
    row.id = m.id /\ row.local_score = m.local_score /\ row.stars = m.stars

----------------------------------------------------------------------------
(* C1 *)

\* C1: in the member list sorted by descending local score, the rank assigned
\* to each member is the 1-based position of the first member holding the same
\* local score.
C1_DenseRank ==
    Ranked =>
        /\ SortedDesc(members)
        /\ Len(ranked) = Len(members)
        /\ \A i \in 1..Len(members) :
              ranked[i].rank = FirstPos(members, members[i].local_score)

----------------------------------------------------------------------------
(* C2 *)

\* C2: the rendered rows are, in order, the members at the positions
\* offset+1 .. offset+limit of the sorted list restricted to members with
\* stars > 0: a prefix of them while the loop runs, all of them once the
\* footer is written; no rendered member has zero stars.
C2_Pagination ==
    Ranked =>
        LET rows == leaderboard.rows
            exp  == ExpectedPage
        IN  /\ Len(rows) <= Len(exp)
            /\ \A i \in 1..Len(rows) : SameMember(rows[i], exp[i]) /\ rows[i].stars > 0
            /\ leaderboard.footer => Len(rows) = Len(exp)
            /\ Len(rows) + Len(pending) <= Len(exp)

\* C2 witness: a delivered page that starts after a skipped starred member and
\* after a member without stars that the offset did not count
C2_Witness ==
    /\ pc = "Done"
    /\ params[1].offset = 1
    /\ Len(leaderboard.rows) = 2
    /\ \E i \in 1..Len(members) :
          /\ members[i].stars = 0
          /\ \E j \in (i + 1)..Len(members) : members[j].id = leaderboard.rows[1].id
    /\ \E i \in 1..Len(members) :
          /\ members[i].stars > 0
          /\ \E j \in (i + 1)..Len(members) : members[j].id = leaderboard.rows[1].id

----------------------------------------------------------------------------
(* C3 *)

\* the single reply of a validation failure and the end it leads to
OneErrorReply(text) ==
    /\ Len(replies) = 1
    /\ replies[1].msg.kind = "error"
    /\ replies[1].msg.text = text

\* C3 as stated: with any supplied argument invalid, invoke ends with the error
\* message naming the first invalid field, never fetches, never delivers a
\* document, and never ends as a fault.
C3_Original ==
    AnyInvalid(cmd) =>
        /\ fetch_calls = <<>>
        /\ DocAttempts = <<>>
        /\ pc # "Fault" /\ result \notin {"Err", "Panic"}
        /\ pc # "Resolving" =>
              /\ pc = "UserError"
              /\ OneErrorReply(ParseErrorText(FirstInvalid(cmd)))

\* C3 amended: with any supplied argument invalid, invoke never fetches and
\* never hands a document to delivery; it attempts exactly one reply, an error
\* message naming the first invalid field in the order day, year, p, rows,
\* offset, except that an absent day with no active event day is reported
\* first as "Argument 'day' is required"; invoke returns success when that
\* reply is sent and ends as a fault only when sending it fails.
C3_Validation ==
    AnyInvalid(cmd) =>
        /\ fetch_calls = <<>>
        /\ DocAttempts = <<>>
        /\ params = None
        /\ pc \in {"Resolving", "UserError", "Fault"}
        /\ pc # "Resolving" =>
              /\ OneErrorReply(IF cmd.day = None /\ current = None
                               THEN DayRequiredText
                               ELSE ParseErrorText(FirstInvalid(cmd)))
              /\ replies[1].ok => pc = "UserError" /\ result = "Ok"
              /\ ~replies[1].ok => pc = "Fault" /\ result = "Err"

\* C3 witness: year and rows are both invalid and the reply names year
C3_Witness ==
    /\ pc = "UserError"
    /\ ~Invalid(cmd, "day") /\ Invalid(cmd, "year") /\ Invalid(cmd, "rows")
    /\ cmd.year = Some("2017")
    /\ cmd.rows = Some("201")
    /\ OneErrorReply("Failed to parse argument 'year'")
    /\ replies[1].ok

----------------------------------------------------------------------------
(* C4 *)

----------------------------------------------------------------------------
(* C5 *)

\* C5 as stated: a fetch failure with a status yields one reply with year and
\* status and invoke returns success; any other fetch failure is a fault
\* without reply; no document is delivered.
C5_Original ==
    /\ fetched.shape = "Status" =>
          /\ Len(replies) = 1
          /\ replies[1].msg.text = FetchFailedText
          /\ result = "Ok"
    /\ fetched.shape \in {"NoStatus", "Other"} =>
          /\ replies = <<>>
          /\ result = "Err"
    /\ fetched.shape \in {"Status", "NoStatus", "Other"} => DocAttempts = <<>>

\* C5 amended: a fetch failure with a known status makes invoke attempt exactly
\* one reply, the error message with the requested year and that status; invoke
\* returns success when the reply is sent, and the failure to send it is
\* propagated as a fault.  A fetch failure of any other shape is propagated as
\* a fault with no reply.  In all these cases no document is delivered.
C5_FetchBoundary ==
    /\ fetched.shape = "Status" =>
          /\ Len(replies) = 1
          /\ replies[1].msg.kind = "error"
          /\ replies[1].msg.text = FetchFailedText
          /\ replies[1].msg.year = fetch_calls[1].year
          /\ replies[1].msg.status = fetched.status
          /\ replies[1].ok => result = "Ok" /\ pc = "UserError"
          /\ ~replies[1].ok => result = "Err" /\ pc = "Fault"
    /\ fetched.shape \in {"NoStatus", "Other"} =>
          /\ replies = <<>>
          /\ result = "Err"
          /\ pc = "Fault"
    /\ fetched.shape \in {"Status", "NoStatus", "Other"} =>
          /\ DocAttempts = <<>>
          /\ leaderboard = NoDoc

\* C5 witness: the fetch for 2015 failed with status 404 and the reply was sent
C5_Witness ==
    /\ fetched = [shape |-> "Status", status |-> 404]
    /\ cmd.year = Some("2015")
    /\ result = "Ok"
    /\ replies = <<Reply(ErrorMessage(FetchFailedText, 2015, 404), TRUE)>>

----------------------------------------------------------------------------
(* C6 *)

\* C6 as stated: a too-large delivery failure yields one remediation reply and
\* invoke returns success; any other delivery failure is a fault without
\* remediation reply.
C6_Original ==
    /\ delivery = "TooLarge" =>
          /\ Len(replies) = 2
          /\ replies[2].msg.text = TooLargeText
          /\ result = "Ok"
    /\ delivery = "Other" =>
          /\ Len(replies) = 1
          /\ result = "Err"

\* C6 amended: a too-large delivery failure makes invoke attempt exactly one
\* remediation reply (reduce the number of rows); invoke returns success when
\* that reply is sent, and the failure to send it is propagated as a fault.
\* Any other delivery failure is propagated as a fault and no remediation
\* reply is attempted.
C6_DeliveryBoundary ==
    /\ delivery = "TooLarge" =>
          /\ Len(replies) = 2
          /\ replies[1].msg.kind = "html" /\ ~replies[1].ok
          /\ replies[2].msg.kind = "error"
          /\ replies[2].msg.text = TooLargeText
          /\ replies[2].ok => result = "Ok" /\ pc = "UserError"
          /\ ~replies[2].ok => result = "Err" /\ pc = "Fault"
    /\ delivery = "Other" =>
          /\ Len(replies) = 1
          /\ replies[1].msg.kind = "html" /\ ~replies[1].ok
          /\ result = "Err"
          /\ pc = "Fault"

\* C6 witness: a rendered page was too large and the remediation reply was sent
C6_Witness ==
    /\ delivery = "TooLarge"
    /\ Len(leaderboard.rows) >= 1
    /\ replies[2] = Reply(ErrorMessage(TooLargeText, 0, 0), TRUE)
    /\ result = "Ok"

----------------------------------------------------------------------------
(* C7 *)

\* position of a state in Resolving -> Fetching -> Ranking -> Rendering ->
\* Delivering -> {Done | UserError | Fault}
Ord(p) ==
    CASE p = "Resolving"  -> 1
      [] p = "Fetching"   -> 2
      [] p = "Ranking"    -> 3
      [] p = "Rendering"  -> 4
      [] p = "Delivering" -> 5
      [] OTHER            -> 6

\* the document was handed to delivery only after a successful fetch and after
\* every row of the page and the footer were rendered
DeliveredComplete ==
    DocAttempts # <<>> =>
        /\ fetched.shape = "Ok"
        /\ leaderboard.header # None
        /\ leaderboard.footer
        /\ pending = <<>>
        /\ Len(leaderboard.rows) = Len(ExpectedPage)
        /\ DocAttempts[1].msg.body = leaderboard

\* C7: every step of an invocation moves forward in the state machine and none
\* leaves an end state; the fetch is called at most once, and only in Fetching;
\* the document is handed to delivery at most once, only in Delivering, only
\* after the fetch succeeded and all rows and the footer were rendered.
C7_ForwardOnly ==
    [][/\ Ord(pc') >= Ord(pc)
       /\ Ord(pc) < 6
       /\ Len(fetch_calls') <= 1
       /\ fetch_calls' # fetch_calls => pc = "Fetching"
       /\ Len(DocAttempts') <= 1
       /\ DocAttempts' # DocAttempts => pc = "Delivering"
       /\ DeliveredComplete']_vars

\* C7 witness: a delivery that failed was not attempted again
C7_Witness ==
    /\ pc = "Fault"
    /\ delivery = "Other"
    /\ Len(fetch_calls) = 1
    /\ Len(DocAttempts) = 1
    /\ Len(leaderboard.rows) = 2
    /\ leaderboard.footer

----------------------------------------------------------------------------
(* C8 *)

\* the rank computed for a member over the whole sorted roster
RankOf(id) == ranked[CHOOSE i \in 1..Len(ranked) : ranked[i].member.id = id].rank

\* C8: a rendered row is emphasized exactly when the rank computed for its
\* member over the whole sorted roster, before filtering and pagination, is at
\* most 3 (that rank being the position of the first member with the same
\* score, or smaller); a page whose first row has a rank above 3 has no
\* emphasized row.
C8_Emphasis ==
    Ranked =>
        LET rows == leaderboard.rows
        IN  /\ \A i \in 1..Len(rows) :
                  /\ rows[i].rank = RankOf(rows[i].id)
                  /\ rows[i].emphasized <=> RankOf(rows[i].id) <= 3
                  /\ rows[i].emphasized <=>
                        FirstPos(members, rows[i].local_score) <= 3
            /\ (rows # <<>> /\ rows[1].rank > 3) =>
                  \A i \in 1..Len(rows) : ~rows[i].emphasized

\* C8 witness: a page taken at an offset holds the rank 3 row, emphasized, and
\* the rank 4 row, not emphasized
C8_Witness ==
    /\ pc = "Done"
    /\ params[1].offset = 2
    /\ Len(leaderboard.rows) = 2
    /\ leaderboard.rows[1].rank = 3 /\ leaderboard.rows[1].emphasized
    /\ leaderboard.rows[2].rank = 4 /\ ~leaderboard.rows[2].emphasized

----------------------------------------------------------------------------
(* C9 *)

MemberOf(id) == members[CHOOSE i \in 1..Len(members) : members[i].id = id]

\* some member of the page has no completion record for the requested day
PageLacksRecord ==
    \E i \in 1..Len(ExpectedPage) :
        params[1].day \notin DOMAIN ExpectedPage[i].completion_day_level

\* C9: under scope P2 the elapsed-time start of every rendered row is that
\* member's own first-part timestamp of the requested day, under P1 and Both it
\* is the unlock instant of the requested day; under P2, when a member of the
\* page has no completion record for that day, the invocation never gets past
\* rendering: it ends as a fault (a panic) with no reply attempted, so neither
\* the document nor an error message is sent.
C9_SecondPartStart ==
    Ranked =>
        /\ \A i \in 1..Len(leaderboard.rows) :
              LET row == leaderboard.rows[i]
              IN  IF params[1].parts = "P2"
                  THEN /\ params[1].day \in DOMAIN MemberOf(row.id).completion_day_level
                       /\ row.start =
                             MemberOf(row.id).completion_day_level[params[1].day].fst.get_star_ts
                  ELSE row.start = Unlock(params[1].year, params[1].day)
        /\ (params[1].parts = "P2" /\ PageLacksRecord) =>
              /\ pc \in {"Rendering", "Fault"}
              /\ pc = "Fault" => result = "Panic"
              /\ replies = <<>>
              /\ ~leaderboard.footer
        /\ result = "Panic" => params[1].parts = "P2" /\ PageLacksRecord /\ replies = <<>>

\* C9 witness: under P2 the first member was rendered with its own first-part
\* timestamp and the second member, without record for the day, ended the
\* invocation
C9_Witness ==
    /\ result = "Panic"
    /\ pc = "Fault"
    /\ params[1].parts = "P2"
    /\ params[1].day = 25
    /\ Len(leaderboard.rows) = 1
    /\ leaderboard.rows[1].start = 100 * leaderboard.rows[1].id + 25
    /\ Len(pending) = 1
    /\ replies = <<>>

----------------------------------------------------------------------------
(* C10 *)

\* C10: when invoke has returned success exactly one reply has reached the
\* requester, the document or one error message; when invoke has ended as a
\* fault (an error returned or a panic) no reply has reached the requester;
\* while invoke runs nothing has been sent.
C10_ReplyAccounting ==
    /\ result = "Ok" =>
          /\ Len(Sent) = 1
          /\ Sent[1].msg.kind \in {"html", "error"}
          /\ Sent[1].msg.kind = "html" <=> pc = "Done"
          /\ Sent[1].msg.kind = "error" <=> pc = "UserError"
    /\ result \in {"Err", "Panic"} => Sent = <<>> /\ pc = "Fault"
    /\ result = "running" => replies = <<>> /\ ~Terminal
    /\ Terminal <=> result # "running"

\* C10 witness: the document was refused as too large and the one message that
\* reached the requester is the remediation message
C10_Witness ==
    /\ pc = "UserError"
    /\ Len(replies) = 2
    /\ replies[1].msg.kind = "html"
    /\ Len(Sent) = 1
    /\ Sent[1].msg.kind = "error"

====
